---- MODULE Spec2Model ----
(***************************************************************************)
(* Helpers of CoreUtilsProvider (src/core/services/utils/utils.ts):        *)
(* allPromises, executeOrderedPromises, timeoutPromise, ignoreErrors,      *)
(* allPromisesIgnoringErrors, promiseDefer, getUniqueId, debounce,         *)
(* promiseFails, promiseWorks, checkRedirect, startScanQR, stopScanQR and  *)
(* formatTree, run on a JavaScript event loop: promise reactions are       *)
(* jobs of one FIFO microtask queue, a timer callback runs only when that  *)
(* queue is empty, and the settling of a promise owned by a caller is a    *)
(* step of the environment.                                                *)
(***************************************************************************)
EXTENDS Integers, Sequences, FiniteSets, TLC

\* Longest sequence of promises handed to allPromises.
MaxPromises == 3
\* Longest sequence of tasks handed to executeOrderedPromises.
MaxTasks == 3
\* Longest sequence of tasks in the behaviours checked for liveness.
MaxLiveTasks == 2
\* Largest deadline handed to timeoutPromise, and the last instant of the clock.
MaxTime == 2
\* Most calls made to the resolve and reject functions of one deferred.
MaxDeferCalls == 3
\* Most getUniqueId calls made for one name.
MaxIds == 3
\* Most invocations of a debounced function.
MaxInvocations == 3
\* Largest delay handed to debounce.
MaxDelay == 2
\* The last instant of the clock of debounce.
MaxClock == 4
\* The call stack holds this many activations of startScanQR.
MaxStack == 3
\* Most stopScanQR calls.
MaxStops == 3
\* Longest list handed to formatTree.
MaxNodes == 4
\* Largest maxDepth handed to formatTree.
MaxTreeDepth == 3

VARIABLES
    op,          \* the operation under execution
    pc,          \* "idle" before the call, "awaiting" inside allPromises, "done"
    promises,    \* the promises allPromises awaits: its argument, or the `promises` array of executeOrderedPromises
    errors,      \* what each getPromiseError(promise) has returned so far
    result,      \* the promise returned to the caller
    microtasks,  \* FIFO queue of promise reaction jobs
    tasks,       \* orderedPromisesData
    taskState,   \* per task: the outcome of data.function()
    calls,       \* per task: how many times data.function() was invoked
    logged,      \* what this.logger.error received, in order
    promise,     \* the promise handed to timeoutPromise or to ignoreErrors
    time,        \* the `time` argument of timeoutPromise
    now,         \* milliseconds elapsed since timeoutPromise was called
    timer,       \* the timer `timeout`: "none", "armed", "fired" or "cleared"
    timedOut,    \* the local variable timedOut
    chain,       \* the promises returned by .then, .catch and .finally in timeoutPromise
    events,      \* history: "settle" (of `promise`), "call", "fire" (of the timer), in order
    fallback,    \* the fallback argument of ignoreErrors (undefined when not given)
    ignored,     \* the promise ignoreErrors returns
    outer,       \* the promise allPromisesIgnoringErrors returns
    deferred,    \* deferred.promise of promiseDefer
    deferCalls,  \* history: the calls made to deferred.resolve and deferred.reject
    uniqueIds,   \* this.uniqueIds: the own properties of the object
    issued,      \* history: per name, what getUniqueId returned, in order
    debounceDelay, \* the `delay` argument of debounce
    clock,       \* milliseconds elapsed since debounce was called
    timers,      \* the timers set by the debounced function and still pending
    timeoutID,   \* the local variable timeoutID (0: not assigned yet)
    invocations, \* history: the invocations of the debounced function
    fnCalls,     \* history: the calls of fn
    predCalls,   \* which of promiseFails and promiseWorks were called, in call order
    fails,       \* the promise promiseFails returned
    works,       \* the promise promiseWorks returned
    fetchAvailable, \* window.fetch is defined
    controller,  \* checkRedirect's `controller`: FALSE (false) or TRUE (an AbortController)
    aborted,     \* controller.abort() was called
    redirect,    \* the promise checkRedirect returns
    mobile,      \* CoreApp.instance.isMobile()
    depth,       \* activations of startScanQR on the call stack
    scanPc,      \* where the innermost activation of startScanQR is
    scanResult,  \* the promise startScanQR returned to its caller
    qrScanData,  \* this.qrScanData is set
    observable,  \* the subscription to QRScanner.scan(): "none", "subscribed", "unsubscribed"
    scanDeferred, \* this.qrScanData.deferred.promise
    stops,       \* history: the stopScanQR calls and what each of them changed
    list,        \* the `list` argument of formatTree: nodes with their parent field
    maxDepth,    \* the maxDepth argument of formatTree
    rootParentId, \* the rootParentId argument of formatTree
    index,       \* how many nodes list.forEach has processed
    map,         \* formatTree's `map`: per id, the index of the node (0: undefined)
    mapDepth,    \* formatTree's `mapDepth`: per id, its depth (0: undefined)
    children,    \* per node, node.children
    tree         \* formatTree's `tree`

timeoutVars == <<promise, time, now, timer, timedOut, chain, events>>
ignoreVars == <<fallback, ignored, outer>>
deferVars == <<deferred, deferCalls>>
idVars == <<uniqueIds, issued>>
debounceVars == <<debounceDelay, clock, timers, timeoutID, invocations, fnCalls>>
predVars == <<predCalls, fails, works>>
redirectVars == <<fetchAvailable, controller, aborted, redirect>>
scanVars == <<mobile, depth, scanPc, scanResult, qrScanData, observable, scanDeferred, stops>>
treeVars == <<list, maxDepth, rootParentId, index, map, mapDepth, children, tree>>
moreVars == <<debounceVars, predVars, redirectVars, scanVars, treeVars>>
extVars == <<timeoutVars, ignoreVars, deferVars, idVars, moreVars>>

vars == <<op, pc, promises, errors, result, microtasks, tasks, taskState, calls, logged,
          extVars>>

----------------------------------------------------------------------------
\* JavaScript values.  Only what the code inspects of a value is kept: whether
\* it is truthy, whether a property can be read from it, and which error it is.

Undefined == [type |-> "undefined", id |-> 0]
Null == [type |-> "null", id |-> 0]
ErrorOf(i) == [type |-> "Error", id |-> i]
TypeError == [type |-> "TypeError", id |-> 0]
\* Slot of `errors` whose getPromiseError call has not returned yet.
NotYet == [type |-> "not-yet", id |-> 0]

\* A plain value, {timeout: true}, a number, NaN, a function and Object.prototype.
ValueOf(i) == [type |-> "value", id |-> i]
Timeout == [type |-> "timeout", id |-> 0]
Num(n) == [type |-> "number", id |-> n]
NaN == [type |-> "NaN", id |-> 0]
Function == [type |-> "function", id |-> 0]
ObjectPrototype == [type |-> "object", id |-> 0]
\* No own property of that name.
Absent == [type |-> "absent", id |-> 0]
\* A Response, with its `redirected` flag.
Response(r) == [type |-> "response", id |-> IF r THEN 1 ELSE 0]
\* true and false.
Bool(b) == [type |-> "boolean", id |-> IF b THEN 1 ELSE 0]

\* !!v
Truthy(v) ==
    /\ v.type \notin {"undefined", "null", "not-yet", "NaN", "absent"}
    /\ ~(v.type \in {"number", "boolean"} /\ v.id = 0)

\* v.message can be evaluated (it throws a TypeError on undefined and null).
HasProperties(v) == v.type \notin {"undefined", "null"}

PendingP == [st |-> "pending", val |-> Undefined]
Fulfilled(v) == [st |-> "fulfilled", val |-> v]
Rejected(v) == [st |-> "rejected", val |-> v]
Settled(p) == p.st # "pending"

\* Reasons the promise with index i can be rejected with: a falsy one
\* (reject() without argument) or an error of its own.
Reasons(i) == {Undefined, ErrorOf(i)}
Outcomes(i) == {Fulfilled(Undefined)} \cup {Rejected(r) : r \in Reasons(i)}

\* Outcomes of a promise that carries a value: fulfilled with undefined or with a
\* value, rejected with undefined or with an error.
ValueOutcomes ==
    {Fulfilled(Undefined), Fulfilled(ValueOf(1)), Rejected(Undefined), Rejected(ErrorOf(1))}

\* The resolve and reject functions of a promise: only the first call settles it.
PromiseSettle(p, outcome) == IF Settled(p) THEN p ELSE outcome

Job(k, i) == [kind |-> k, i |-> i]

\* Names handed to getUniqueId: ordinary ones and names of properties that every
\* object inherits from Object.prototype.
Names == {"k", "other", "toString", "__proto__"}

\* The state of each helper before it is called.
OrderedIdle == tasks = <<>> /\ taskState = <<>> /\ calls = <<>> /\ logged = <<>>
AllPromisesIdle == promises = <<>> /\ errors = <<>> /\ result = PendingP
TimeoutIdle ==
    /\ promise = PendingP /\ time = 0 /\ now = 0 /\ timer = "none"
    /\ timedOut = FALSE /\ chain = <<>> /\ events = <<>>
IgnoreIdle == fallback = Undefined /\ ignored = PendingP /\ outer = PendingP
DeferIdle == deferred = PendingP /\ deferCalls = <<>>
IdIdle == uniqueIds = [n \in Names |-> Absent] /\ issued = [n \in Names |-> <<>>]
DebounceIdle ==
    /\ debounceDelay = 0 /\ clock = 0 /\ timers = {} /\ timeoutID = 0
    /\ invocations = <<>> /\ fnCalls = <<>>
PredIdle == predCalls = <<>> /\ fails = PendingP /\ works = PendingP
RedirectIdle ==
    fetchAvailable = TRUE /\ controller = FALSE /\ aborted = FALSE /\ redirect = PendingP
ScanIdle ==
    /\ mobile = FALSE /\ depth = 0 /\ scanPc = "idle" /\ scanResult = PendingP
    /\ qrScanData = FALSE /\ observable = "none" /\ scanDeferred = PendingP /\ stops = <<>>
TreeIdle ==
    /\ list = <<>> /\ maxDepth = 0 /\ rootParentId = 0 /\ index = 0
    /\ map = <<>> /\ mapDepth = <<>> /\ children = <<>> /\ tree = <<>>
MoreIdle == DebounceIdle /\ PredIdle /\ RedirectIdle /\ ScanIdle /\ TreeIdle

Min(S) == CHOOSE x \in S : \A y \in S : x <= y
Max(S) == CHOOSE x \in S : \A y \in S : x >= y

----------------------------------------------------------------------------
\* allPromises

\* getPromiseError: the error of a rejected promise, undefined otherwise.
GetPromiseError(p) == IF p.st = "rejected" THEN p.val ELSE Undefined

\* Promise.all(promises.map(getPromiseError)) is fulfilled: every call has returned.
AnyReturned(errs) == \E i \in DOMAIN errs : errs[i] # NotYet
AllReturned(errs) == \A i \in DOMAIN errs : errs[i] # NotYet

\* errors.find(error => !!error)
Find(errs) ==
    LET found == {i \in DOMAIN errs : Truthy(errs[i])}
    IN  IF found = {} THEN Undefined ELSE errs[Min(found)]

\* The `await promise` of each getPromiseError call: a reaction job is queued
\* at once for a promise that is already settled.
AwaitJobs(ps) ==
    LET IsSettled(j) == Settled(ps[j.i])
    IN  SelectSeq([i \in 1..Len(ps) |-> Job("getPromiseError", i)], IsSettled)

\* The synchronous part of allPromises(ps), with q the microtask queue at the call:
\* with no promise to wait for (no sequence, or an empty one) it returns at once.
AllPromisesCallAwaitsAlways(ps, q) ==
    /\ result' = PendingP
    /\ errors' = [i \in 1..Len(ps) |-> NotYet]
    /\ microtasks' = q \o AwaitJobs(ps)
    /\ pc' = "awaiting"
AllPromisesCall(ps, q) ==
    IF Len(ps) = 0
    THEN /\ result' = Fulfilled(Undefined)
         /\ errors' = <<>>
         /\ microtasks' = q
         /\ pc' = "done"
    ELSE /\ result' = PendingP
         /\ errors' = [i \in 1..Len(ps) |-> NotYet]
         /\ microtasks' = q \o AwaitJobs(ps)
         /\ pc' = "awaiting"

CallAllPromises ==
    /\ op = "allPromises"
    /\ pc = "idle"
    /\ AllPromisesCall(promises, microtasks)
    /\ UNCHANGED <<op, promises, tasks, taskState, calls, logged>>
    /\ UNCHANGED extVars

\* The environment settles a promise handed to allPromises.
SettleInput ==
    /\ op \in {"allPromises", "allPromisesIgnoringErrors"}
    /\ \E i \in DOMAIN promises : \E o \in Outcomes(i) :
        /\ promises[i].st = "pending"
        /\ promises' = [promises EXCEPT ![i] = o]
        /\ microtasks' = IF pc = "awaiting"
                         THEN Append(microtasks, Job("getPromiseError", i))
                         ELSE microtasks
    /\ UNCHANGED <<op, pc, errors, result, tasks, taskState, calls, logged>>
    /\ UNCHANGED extVars

\* A getPromiseError call resumes after its await and returns.
RunGetPromiseError ==
    /\ microtasks # <<>>
    /\ Head(microtasks).kind = "getPromiseError"
    /\ LET i == Head(microtasks).i
           errs == [errors EXCEPT ![i] = GetPromiseError(promises[i])]
       IN  /\ errors' = errs
           /\ microtasks' = IF AllReturned(errs) /\ ~AllReturned(errors)
                            THEN Append(Tail(microtasks), Job("resume", 0))
                            ELSE Tail(microtasks)
    /\ UNCHANGED <<op, pc, promises, result, tasks, taskState, calls, logged>>
    /\ UNCHANGED extVars

\* The reactions of the promise allPromises returned: the await of ignoreErrors
\* when the caller is allPromisesIgnoringErrors.
ResultReactions ==
    IF op = "allPromisesIgnoringErrors" THEN <<Job("ignoreErrors", 0)>> ELSE <<>>

\* allPromises resumes after `await Promise.all(...)`.
RunResume ==
    /\ microtasks # <<>>
    /\ Head(microtasks).kind = "resume"
    /\ LET error == Find(errors)
       IN  result' = IF Truthy(error) THEN Rejected(error) ELSE Fulfilled(Undefined)
    /\ pc' = "done"
    /\ microtasks' = Tail(microtasks) \o ResultReactions
    /\ UNCHANGED <<op, promises, errors, tasks, taskState, calls, logged>>
    /\ UNCHANGED extVars

InitAllPromises ==
    /\ op = "allPromises"
    /\ pc = "idle"
    /\ promises \in UNION {[1..n -> {PendingP}] : n \in 0..MaxPromises}
    /\ errors = <<>>
    /\ result = PendingP
    /\ microtasks = <<>>
    /\ OrderedIdle /\ TimeoutIdle /\ IgnoreIdle /\ DeferIdle /\ IdIdle /\ MoreIdle

NextAllPromises == CallAllPromises \/ SettleInput \/ RunGetPromiseError \/ RunResume

SpecAllPromises == InitAllPromises /\ [][NextAllPromises]_vars

----------------------------------------------------------------------------
\* executeOrderedPromises

\* What data.function() does when invoked: it returns a promise the environment
\* settles later, or it throws synchronously, an Error or a value without
\* properties (throw null).
TaskKinds == {"async", "throwsError", "throwsNull"}

NotStarted == [st |-> "notstarted", val |-> Undefined]
Threw(v) == [st |-> "threw", val |-> v]

\* The value task i throws.
Thrown(ts, i) == IF ts[i].kind = "throwsNull" THEN Null ELSE ErrorOf(i)

\* `if (data.blocking) { dependency = promise; }`, with promises named by their
\* index in `promises` and 0 naming the initial Promise.resolve().
NextDependencyAlways(dependency, i, blocking) == i
NextDependencyNever(dependency, i, blocking) == dependency
NextDependencyInverted(dependency, i, blocking) == IF blocking THEN dependency ELSE i
NextDependency(dependency, i, blocking) == IF blocking THEN i ELSE dependency

\* The value of `dependency` after the first k iterations of the loop.
RECURSIVE DependencyAfter(_, _)
DependencyAfter(ts, k) ==
    IF k = 0 THEN 0
    ELSE NextDependency(DependencyAfter(ts, k - 1), k, ts[k].blocking)

\* The promise task i is chained on: `dependency` when iteration i begins.
DependencyOf(ts, i) == DependencyAfter(ts, i - 1)

\* dependency.finally(callback) runs the callback whatever the outcome of dependency.
ThenRuns(dependency) == dependency.st = "fulfilled"
FinallyRuns(dependency) == dependency.st \in {"fulfilled", "rejected"}

\* The promise dependency.finally(callback) settles as, once the promise the
\* callback returned has settled as `returned`: a rejection of the callback wins,
\* otherwise the outcome of dependency passes through.
FinallyOutcome(dependency, returned) ==
    IF returned.st = "rejected" THEN returned ELSE dependency

\* The catch block: this.logger.error(e.message); return;
\* Reading e.message throws a TypeError when e is null or undefined.
CatchBlock(e) ==
    IF HasProperties(e)
    THEN [completion |-> "return", val |-> Undefined, log |-> <<e>>]
    ELSE [completion |-> "throw", val |-> TypeError, log |-> <<>>]

\* The state of the promise named d (0: Promise.resolve()).
PromiseState(ps, d) == IF d = 0 THEN Fulfilled(Undefined) ELSE ps[d]

\* The reaction jobs queued when promise d settles as `state`, in the order the
\* reactions were registered: the finally callbacks of the tasks chained on d,
\* then (d > 0) the await of getPromiseError.
StartJobsReversed(ts, d, state) ==
    LET Chained(j) == DependencyOf(ts, j.i) = d /\ FinallyRuns(state)
    IN  SelectSeq([i \in 1..Len(ts) |-> Job("start", Len(ts) + 1 - i)], Chained)
StartJobs(ts, d, state) ==
    LET Chained(j) == DependencyOf(ts, j.i) = d /\ FinallyRuns(state)
    IN  SelectSeq([i \in 1..Len(ts) |-> Job("start", i)], Chained)
Reactions(ts, d, state) == StartJobs(ts, d, state) \o <<Job("getPromiseError", d)>>

CallExecuteOrderedPromises ==
    /\ op = "executeOrderedPromises"
    /\ pc = "idle"
    /\ promises' = [i \in 1..Len(tasks) |-> PendingP]
    /\ AllPromisesCall(promises', microtasks \o StartJobs(tasks, 0, Fulfilled(Undefined)))
    /\ UNCHANGED <<op, tasks, taskState, calls, logged>>
    /\ UNCHANGED extVars

\* The callback handed to dependency.finally runs: data.function() is invoked.
RunStart ==
    /\ microtasks # <<>>
    /\ Head(microtasks).kind = "start"
    /\ LET i == Head(microtasks).i
           caught == CatchBlock(Thrown(tasks, i))
       IN  /\ calls' = [calls EXCEPT ![i] = @ + 1]
           /\ IF tasks[i].kind = "async"
              THEN /\ taskState' = [taskState EXCEPT ![i] = PendingP]
                   /\ microtasks' = Tail(microtasks)
                   /\ UNCHANGED <<promises, logged>>
              ELSE /\ taskState' = [taskState EXCEPT ![i] = Threw(Thrown(tasks, i))]
                   /\ logged' = logged \o caught.log
                   /\ IF caught.completion = "return"
                      THEN /\ microtasks' = Append(Tail(microtasks), Job("settle", i))
                           /\ UNCHANGED promises
                      ELSE /\ promises' = [promises EXCEPT ![i] = Rejected(caught.val)]
                           /\ microtasks' = Tail(microtasks)
                                            \o Reactions(tasks, i, Rejected(caught.val))
    /\ UNCHANGED <<op, pc, errors, result, tasks>>
    /\ UNCHANGED extVars

\* The environment settles the promise a task returned.
SettleTask ==
    /\ op = "executeOrderedPromises"
    /\ \E i \in DOMAIN tasks : \E o \in Outcomes(i) :
        /\ taskState[i].st = "pending"
        /\ taskState' = [taskState EXCEPT ![i] = o]
        /\ microtasks' = Append(microtasks, Job("settle", i))
    /\ UNCHANGED <<op, pc, promises, errors, result, tasks, calls, logged>>
    /\ UNCHANGED extVars

\* promises[i], the promise dependency.finally(...) returned, settles.
RunSettle ==
    /\ microtasks # <<>>
    /\ Head(microtasks).kind = "settle"
    /\ LET i == Head(microtasks).i
           state == FinallyOutcome(PromiseState(promises, DependencyOf(tasks, i)),
                                   taskState[i])
       IN  /\ promises' = [promises EXCEPT ![i] = state]
           /\ microtasks' = Tail(microtasks) \o Reactions(tasks, i, state)
    /\ UNCHANGED <<op, pc, errors, result, tasks, taskState, calls, logged>>
    /\ UNCHANGED extVars

OrderedPromiseData == [blocking : BOOLEAN, kind : TaskKinds]

InitOrdered ==
    /\ op = "executeOrderedPromises"
    /\ pc = "idle"
    /\ tasks \in UNION {[1..n -> OrderedPromiseData] : n \in 0..MaxTasks}
    /\ taskState = [i \in 1..Len(tasks) |-> NotStarted]
    /\ calls = [i \in 1..Len(tasks) |-> 0]
    /\ promises = <<>>
    /\ errors = <<>>
    /\ result = PendingP
    /\ microtasks = <<>>
    /\ logged = <<>>
    /\ TimeoutIdle /\ IgnoreIdle /\ DeferIdle /\ IdIdle /\ MoreIdle

NextOrdered ==
    \/ CallExecuteOrderedPromises
    \/ RunStart
    \/ SettleTask
    \/ RunSettle
    \/ RunGetPromiseError
    \/ RunResume

SpecOrdered == InitOrdered /\ [][NextOrdered]_vars

\* The event loop runs every job it has queued, and a call that can be made is
\* made; the environment is under no obligation to settle the promise of a task.
OrderedFairness ==
    /\ WF_vars(CallExecuteOrderedPromises)
    /\ WF_vars(RunStart)
    /\ WF_vars(RunSettle)
    /\ WF_vars(RunGetPromiseError)
    /\ WF_vars(RunResume)

InitOrderedLive == InitOrdered /\ Len(tasks) <= MaxLiveTasks

SpecOrderedLive == InitOrderedLive /\ [][NextOrdered]_vars /\ OrderedFairness

----------------------------------------------------------------------------
\* timeoutPromise

\* The operations that run timeoutPromise: itself, and checkRedirect.
TimeoutOps == {"timeoutPromise", "checkRedirect"}

\* The `await this.timeoutPromise(...)` of checkRedirect: its reaction job is
\* queued when the promise timeoutPromise returned settles.
ResultAwaited(before, after) ==
    IF op = "checkRedirect" /\ ~Settled(before) /\ Settled(after)
    THEN <<Job("checkRedirect", 0)>>
    ELSE <<>>

\* The environment settles the promise handed to timeoutPromise, to
\* ignoreErrors or to promiseFails and promiseWorks; once a helper has
\* registered its reaction, the reaction job is queued, in registration order.
PromiseReactions ==
    IF op = "promisePredicates" THEN [n \in 1..Len(predCalls) |-> Job(predCalls[n], 0)]
    ELSE IF pc = "idle" THEN <<>>
    ELSE IF op \in TimeoutOps THEN <<Job("then", 0)>>
    ELSE <<Job("ignoreErrors", 0)>>

\* What the promise can settle as: window.fetch(url) resolves with a Response
\* or rejects with an error.
FetchOutcomes == {Fulfilled(Response(TRUE)), Fulfilled(Response(FALSE)), Rejected(ErrorOf(1))}
PromiseOutcomes == IF op = "checkRedirect" THEN FetchOutcomes ELSE ValueOutcomes

\* The request of checkRedirect is made inside the call, not before.
SettlePromise ==
    /\ op \in {"timeoutPromise", "ignoreErrors", "promisePredicates", "checkRedirect"}
    /\ op = "checkRedirect" => (pc # "idle" /\ fetchAvailable)
    /\ promise.st = "pending"
    /\ \E o \in PromiseOutcomes : promise' = o
    /\ events' = Append(events, "settle")
    /\ microtasks' = microtasks \o PromiseReactions
    /\ UNCHANGED <<op, pc, promises, errors, result, tasks, taskState, calls, logged>>
    /\ UNCHANGED <<time, now, timer, timedOut, chain, ignoreVars, deferVars, idVars, moreVars>>

\* resolveBeforeTimeout: if (timedOut) return; resolve();
\* `value`, the value promise fulfilled with, is not among its parameters.
ResolveBeforeTimeout(res, flag, value) ==
    IF flag THEN res ELSE PromiseSettle(res, Fulfilled(Undefined))

\* The timer callback: reject({ timeout: true }); timedOut = true;
TimerCallbackSilent(res) == [res |-> res, timedOut |-> TRUE]
TimerCallback(res) == [res |-> PromiseSettle(res, Rejected(Timeout)), timedOut |-> TRUE]

\* .catch(reject)
CatchRejectAsTimeout(res, reason) == PromiseSettle(res, Rejected(Timeout))
CatchReject(res, reason) == PromiseSettle(res, Rejected(reason))

\* clearTimeout(timeout): a timer that has not fired yet never will.
ClearTimeoutForgotten(t) == t
ClearTimeout(t) == IF t = "armed" THEN "cleared" ELSE t

\* setTimeout(callback, time): the callback is a task of the event loop, run no
\* earlier than `time` ms after the call and only when no microtask is queued.
TimerDueEagerly(q, elapsed, delay) == elapsed >= delay
TimerDue(q, elapsed, delay) == q = <<>> /\ elapsed >= delay

\* The synchronous part of timeoutPromise(promise, time).
TimeoutPromiseCall ==
    /\ pc' = "racing"
    /\ timedOut' = FALSE
    /\ timer' = "armed"
    /\ chain' = <<PendingP, PendingP, PendingP>>
    /\ events' = Append(events, "call")
    /\ microtasks' = IF Settled(promise) THEN Append(microtasks, Job("then", 0))
                     ELSE microtasks

CallTimeoutPromise ==
    /\ op = "timeoutPromise"
    /\ pc = "idle"
    /\ TimeoutPromiseCall
    /\ UNCHANGED <<op, promises, errors, result, tasks, taskState, calls, logged>>
    /\ UNCHANGED <<promise, time, now, ignoreVars, deferVars, idVars, moreVars>>

\* A millisecond passes.
Tick ==
    /\ op \in TimeoutOps
    /\ pc # "idle"
    /\ now < MaxTime
    /\ now' = now + 1
    /\ UNCHANGED <<op, pc, promises, errors, result, microtasks, tasks, taskState, calls,
                   logged>>
    /\ UNCHANGED <<promise, time, timer, timedOut, chain, events, ignoreVars, deferVars,
                   idVars, moreVars>>

\* The timer fires: its callback runs.
TimerFire ==
    /\ op \in TimeoutOps
    /\ timer = "armed"
    /\ TimerDue(microtasks, now, time)
    /\ LET after == TimerCallback(result)
       IN  /\ result' = after.res
           /\ timedOut' = after.timedOut
    /\ microtasks' = microtasks \o ResultAwaited(result, result')
    /\ timer' = "fired"
    /\ events' = Append(events, "fire")
    /\ UNCHANGED <<op, pc, promises, errors, tasks, taskState, calls, logged>>
    /\ UNCHANGED <<promise, time, now, chain, ignoreVars, deferVars, idVars, moreVars>>

\* promise.then(resolveBeforeTimeout): a rejection of promise passes through.
RunThen ==
    /\ microtasks # <<>>
    /\ Head(microtasks).kind = "then"
    /\ IF promise.st = "fulfilled"
       THEN /\ result' = ResolveBeforeTimeout(result, timedOut, promise.val)
            /\ chain' = [chain EXCEPT ![1] = Fulfilled(Undefined)]
       ELSE /\ result' = result
            /\ chain' = [chain EXCEPT ![1] = promise]
    /\ microtasks' = Tail(microtasks) \o ResultAwaited(result, result') \o <<Job("catch", 0)>>
    /\ UNCHANGED <<op, pc, promises, errors, tasks, taskState, calls, logged>>
    /\ UNCHANGED <<promise, time, now, timer, timedOut, events, ignoreVars, deferVars,
                   idVars, moreVars>>

\* .catch(reject)
RunCatch ==
    /\ microtasks # <<>>
    /\ Head(microtasks).kind = "catch"
    /\ IF chain[1].st = "rejected"
       THEN /\ result' = CatchReject(result, chain[1].val)
            /\ chain' = [chain EXCEPT ![2] = Fulfilled(Undefined)]
       ELSE /\ result' = result
            /\ chain' = [chain EXCEPT ![2] = chain[1]]
    /\ microtasks' = Tail(microtasks) \o ResultAwaited(result, result')
                        \o <<Job("finally", 0)>>
    /\ UNCHANGED <<op, pc, promises, errors, tasks, taskState, calls, logged>>
    /\ UNCHANGED <<promise, time, now, timer, timedOut, events, ignoreVars, deferVars,
                   idVars, moreVars>>

\* .finally(() => clearTimeout(timeout))
RunFinally ==
    /\ microtasks # <<>>
    /\ Head(microtasks).kind = "finally"
    /\ timer' = ClearTimeout(timer)
    /\ chain' = [chain EXCEPT ![3] = chain[2]]
    /\ microtasks' = Tail(microtasks)
    /\ pc' = "done"
    /\ UNCHANGED <<op, promises, errors, result, tasks, taskState, calls, logged>>
    /\ UNCHANGED <<promise, time, now, timedOut, events, ignoreVars, deferVars, idVars, moreVars>>

InitTimeout ==
    /\ op = "timeoutPromise"
    /\ pc = "idle"
    /\ microtasks = <<>>
    /\ AllPromisesIdle /\ OrderedIdle
    /\ promise = PendingP
    /\ time \in 0..MaxTime
    /\ now = 0 /\ timer = "none" /\ timedOut = FALSE /\ chain = <<>> /\ events = <<>>
    /\ IgnoreIdle /\ DeferIdle /\ IdIdle /\ MoreIdle

NextTimeout ==
    \/ CallTimeoutPromise
    \/ SettlePromise
    \/ Tick
    \/ TimerFire
    \/ RunThen
    \/ RunCatch
    \/ RunFinally

SpecTimeout == InitTimeout /\ [][NextTimeout]_vars

\* The event loop runs every job it has queued, time passes and a timer that is
\* due fires; the environment is under no obligation to settle the promise.
TimeoutFairness ==
    /\ WF_vars(CallTimeoutPromise)
    /\ WF_vars(Tick)
    /\ WF_vars(TimerFire)
    /\ WF_vars(RunThen)
    /\ WF_vars(RunCatch)
    /\ WF_vars(RunFinally)

SpecTimeoutLive == SpecTimeout /\ TimeoutFairness

----------------------------------------------------------------------------
\* ignoreErrors and allPromisesIgnoringErrors

\* The promise ignoreErrors(promise, fallback) returns, once promise settled as p:
\* try { return await promise; } catch (error) { return fallback; }
IgnoreErrorsRethrow(p, fb) == p
IgnoreErrorsNoFallback(p, fb) ==
    IF p.st = "fulfilled" THEN Fulfilled(p.val) ELSE Fulfilled(Undefined)
IgnoreErrors(p, fb) ==
    IF p.st = "fulfilled" THEN Fulfilled(p.val) ELSE Fulfilled(fb)

\* The fallback arguments tried: none (undefined) or a value.
Fallbacks == {Undefined, ValueOf(2)}

\* What ignoreErrors awaits and falls back to: its arguments, or, called by
\* allPromisesIgnoringErrors, the promise of allPromises and no fallback.
IgnoreErrorsPromise == IF op = "ignoreErrors" THEN promise ELSE result
IgnoreErrorsFallback == IF op = "ignoreErrors" THEN fallback ELSE Undefined

\* The synchronous part of ignoreErrors(promise, fallback).
CallIgnoreErrors ==
    /\ op = "ignoreErrors"
    /\ pc = "idle"
    /\ pc' = "awaiting"
    /\ events' = Append(events, "call")
    /\ microtasks' = IF Settled(promise) THEN Append(microtasks, Job("ignoreErrors", 0))
                     ELSE microtasks
    /\ UNCHANGED <<op, promises, errors, result, tasks, taskState, calls, logged>>
    /\ UNCHANGED <<promise, time, now, timer, timedOut, chain, ignoreVars, deferVars,
                   idVars, moreVars>>

\* The synchronous part of allPromisesIgnoringErrors(promises): allPromises is
\* called and ignoreErrors awaits the promise it returned.
CallAllPromisesIgnoringErrors ==
    /\ op = "allPromisesIgnoringErrors"
    /\ pc = "idle"
    /\ AllPromisesCall(promises,
                       microtasks \o IF Len(promises) = 0
                                     THEN <<Job("ignoreErrors", 0)>> ELSE <<>>)
    /\ UNCHANGED <<op, promises, tasks, taskState, calls, logged>>
    /\ UNCHANGED extVars

\* ignoreErrors resumes after its await and returns.
RunIgnoreErrors ==
    /\ microtasks # <<>>
    /\ Head(microtasks).kind = "ignoreErrors"
    /\ ignored' = IgnoreErrors(IgnoreErrorsPromise, IgnoreErrorsFallback)
    /\ IF op = "ignoreErrors"
       THEN /\ pc' = "done"
            /\ microtasks' = Tail(microtasks)
       ELSE /\ pc' = pc
            /\ microtasks' = Append(Tail(microtasks), Job("outer", 0))
    /\ UNCHANGED <<op, promises, errors, result, tasks, taskState, calls, logged>>
    /\ UNCHANGED <<timeoutVars, fallback, outer, deferVars, idVars, moreVars>>

\* allPromisesIgnoringErrors resumes after `await ...ignoreErrors(...)` and returns.
RunOuter ==
    /\ microtasks # <<>>
    /\ Head(microtasks).kind = "outer"
    /\ outer' = IF ignored.st = "rejected" THEN ignored ELSE Fulfilled(Undefined)
    /\ microtasks' = Tail(microtasks)
    /\ UNCHANGED <<op, pc, promises, errors, result, tasks, taskState, calls, logged>>
    /\ UNCHANGED <<timeoutVars, fallback, ignored, deferVars, idVars, moreVars>>

InitIgnoreErrors ==
    /\ op = "ignoreErrors"
    /\ pc = "idle"
    /\ microtasks = <<>>
    /\ AllPromisesIdle /\ OrderedIdle /\ TimeoutIdle
    /\ fallback \in Fallbacks
    /\ ignored = PendingP /\ outer = PendingP
    /\ DeferIdle /\ IdIdle /\ MoreIdle

InitAllPromisesIgnoringErrors ==
    /\ op = "allPromisesIgnoringErrors"
    /\ pc = "idle"
    /\ promises \in UNION {[1..n -> {PendingP}] : n \in 0..MaxPromises}
    /\ errors = <<>>
    /\ result = PendingP
    /\ microtasks = <<>>
    /\ OrderedIdle /\ TimeoutIdle /\ IgnoreIdle /\ DeferIdle /\ IdIdle /\ MoreIdle

InitIgnore == InitIgnoreErrors \/ InitAllPromisesIgnoringErrors

NextIgnore ==
    \/ CallIgnoreErrors
    \/ CallAllPromisesIgnoringErrors
    \/ SettlePromise
    \/ SettleInput
    \/ RunGetPromiseError
    \/ RunResume
    \/ RunIgnoreErrors
    \/ RunOuter

SpecIgnore == InitIgnore /\ [][NextIgnore]_vars

----------------------------------------------------------------------------
\* promiseDefer

\* deferred.resolve = resolve; deferred.reject = reject: the functions of the
\* deferred are the resolving functions of deferred.promise.
DeferredResolveLast(p, value) == Fulfilled(value)
DeferredResolve(p, value) == PromiseSettle(p, Fulfilled(value))
DeferredReject(p, reason) == PromiseSettle(p, Rejected(reason))

\* The calls tried on a deferred.
DeferCalls ==
    {[fn |-> "resolve", arg |-> v] : v \in {Undefined, ValueOf(1), ValueOf(2)}}
        \cup {[fn |-> "reject", arg |-> r] : r \in {Undefined, ErrorOf(1)}}

\* promiseDefer(): the deferred is returned with its promise pending.
CallPromiseDefer ==
    /\ op = "promiseDefer"
    /\ pc = "idle"
    /\ pc' = "deferred"
    /\ deferred' = PendingP
    /\ UNCHANGED <<op, promises, errors, result, microtasks, tasks, taskState, calls,
                   logged>>
    /\ UNCHANGED <<timeoutVars, ignoreVars, deferCalls, idVars, moreVars>>

\* A holder of the deferred calls deferred.resolve(value).
CallDeferredResolve ==
    /\ op = "promiseDefer"
    /\ pc = "deferred"
    /\ Len(deferCalls) < MaxDeferCalls
    /\ \E c \in DeferCalls :
        /\ c.fn = "resolve"
        /\ deferred' = DeferredResolve(deferred, c.arg)
        /\ deferCalls' = Append(deferCalls, c)
    /\ UNCHANGED <<op, pc, promises, errors, result, microtasks, tasks, taskState, calls,
                   logged>>
    /\ UNCHANGED <<timeoutVars, ignoreVars, idVars, moreVars>>

\* A holder of the deferred calls deferred.reject(reason).
CallDeferredReject ==
    /\ op = "promiseDefer"
    /\ pc = "deferred"
    /\ Len(deferCalls) < MaxDeferCalls
    /\ \E c \in DeferCalls :
        /\ c.fn = "reject"
        /\ deferred' = DeferredReject(deferred, c.arg)
        /\ deferCalls' = Append(deferCalls, c)
    /\ UNCHANGED <<op, pc, promises, errors, result, microtasks, tasks, taskState, calls,
                   logged>>
    /\ UNCHANGED <<timeoutVars, ignoreVars, idVars, moreVars>>

InitDefer ==
    /\ op = "promiseDefer"
    /\ pc = "idle"
    /\ microtasks = <<>>
    /\ AllPromisesIdle /\ OrderedIdle /\ TimeoutIdle /\ IgnoreIdle /\ DeferIdle /\ IdIdle /\ MoreIdle

NextDefer == CallPromiseDefer \/ CallDeferredResolve \/ CallDeferredReject

SpecDefer == InitDefer /\ [][NextDefer]_vars

----------------------------------------------------------------------------
\* getUniqueId

\* What this.uniqueIds inherits from Object.prototype under a name.
Inherited(name) ==
    CASE name = "toString" -> Function
      [] name = "__proto__" -> ObjectPrototype
      [] OTHER -> Undefined

\* this.uniqueIds[name], read: the own property, else the inherited one.
\* __proto__ is an accessor of Object.prototype: it never becomes an own property.
GetProperty(obj, name) == IF obj[name] # Absent THEN obj[name] ELSE Inherited(name)

\* this.uniqueIds[name] = v.  The setter of __proto__ ignores a value that is
\* neither an object nor null.
SetPropertyShared(obj, name, v) == [n \in DOMAIN obj |-> v]
SetProperty(obj, name, v) ==
    IF name = "__proto__" THEN obj ELSE [obj EXCEPT ![name] = v]

\* ++x: the operand is converted to a number first (NaN for a function, an
\* object, undefined or NaN).
Increment(v) == IF v.type = "number" THEN Num(v.id + 1) ELSE NaN

\* if (!this.uniqueIds[name]) { this.uniqueIds[name] = 0; }
InitializeId(obj, name) ==
    IF ~Truthy(GetProperty(obj, name)) THEN SetProperty(obj, name, Num(0)) ELSE obj

\* getUniqueId(name): the object afterwards and the value returned.
GetUniqueId(obj, name) ==
    LET initialized == InitializeId(obj, name)
        id == Increment(GetProperty(initialized, name))
    IN  [uniqueIds |-> SetProperty(initialized, name, id), id |-> id]

CallGetUniqueId ==
    /\ op = "getUniqueId"
    /\ \E name \in Names :
        /\ Len(issued[name]) < MaxIds
        /\ LET call == GetUniqueId(uniqueIds, name)
           IN  /\ uniqueIds' = call.uniqueIds
               /\ issued' = [issued EXCEPT ![name] = Append(@, call.id)]
    /\ UNCHANGED <<op, pc, promises, errors, result, microtasks, tasks, taskState, calls,
                   logged>>
    /\ UNCHANGED <<timeoutVars, ignoreVars, deferVars, moreVars>>

InitUniqueId ==
    /\ op = "getUniqueId"
    /\ pc = "idle"
    /\ microtasks = <<>>
    /\ AllPromisesIdle /\ OrderedIdle /\ TimeoutIdle /\ IgnoreIdle /\ DeferIdle /\ IdIdle /\ MoreIdle

NextUniqueId == CallGetUniqueId

SpecUniqueId == InitUniqueId /\ [][NextUniqueId]_vars

----------------------------------------------------------------------------
\* debounce

\* The arguments the debounced function is invoked with.
DebounceArgs == {ValueOf(1), ValueOf(2)}

\* clearTimeout(timeoutID): the timer of that id, if still pending, is dropped.
ClearPendingForgotten(ts, id) == ts
ClearPending(ts, id) == {t \in ts : t.id # id}

\* window.setTimeout(() => fn.apply(null, args), delay), called at instant `at`.
SetTimeout(ts, id, args, at, d) == ts \cup {[id |-> id, args |-> args, due |-> at + d]}

\* debounce(fn, delay): the wrapper is returned, timeoutID is not assigned yet.
CallDebounce ==
    /\ op = "debounce"
    /\ pc = "idle"
    /\ pc' = "debounced"
    /\ timeoutID' = 0
    /\ UNCHANGED <<op, promises, errors, result, microtasks, tasks, taskState, calls,
                   logged>>
    /\ UNCHANGED <<timeoutVars, ignoreVars, deferVars, idVars>>
    /\ UNCHANGED <<debounceDelay, clock, timers, invocations, fnCalls>>
    /\ UNCHANGED <<predVars, redirectVars, scanVars, treeVars>>

\* The wrapper is invoked: debounced(...args).
CallDebounced ==
    /\ op = "debounce"
    /\ pc = "debounced"
    /\ Len(invocations) < MaxInvocations
    /\ \E args \in DebounceArgs :
        LET id == Len(invocations) + 1
        IN  /\ timers' = SetTimeout(ClearPending(timers, timeoutID), id, args, clock, debounceDelay)
            /\ timeoutID' = id
            /\ invocations' = Append(invocations, [args |-> args, at |-> clock])
    /\ UNCHANGED <<op, pc, promises, errors, result, microtasks, tasks, taskState, calls,
                   logged>>
    /\ UNCHANGED <<timeoutVars, ignoreVars, deferVars, idVars>>
    /\ UNCHANGED <<debounceDelay, clock, fnCalls>>
    /\ UNCHANGED <<predVars, redirectVars, scanVars, treeVars>>

\* A millisecond passes.
DebounceTick ==
    /\ op = "debounce"
    /\ pc = "debounced"
    /\ clock < MaxClock
    /\ clock' = clock + 1
    /\ UNCHANGED <<op, pc, promises, errors, result, microtasks, tasks, taskState, calls,
                   logged>>
    /\ UNCHANGED <<timeoutVars, ignoreVars, deferVars, idVars>>
    /\ UNCHANGED <<debounceDelay, timers, timeoutID, invocations, fnCalls>>
    /\ UNCHANGED <<predVars, redirectVars, scanVars, treeVars>>

\* A pending timer fires, no earlier than its delay: fn.apply(null, args).
\* `after` records how many invocations of the wrapper had been made by then.
DebounceFire ==
    /\ op = "debounce"
    /\ \E t \in timers :
        /\ clock >= t.due
        /\ timers' = timers \ {t}
        /\ fnCalls' = Append(fnCalls, [args |-> t.args, at |-> clock,
                                       after |-> Len(invocations)])
    /\ UNCHANGED <<op, pc, promises, errors, result, microtasks, tasks, taskState, calls,
                   logged>>
    /\ UNCHANGED <<timeoutVars, ignoreVars, deferVars, idVars>>
    /\ UNCHANGED <<debounceDelay, clock, timeoutID, invocations>>
    /\ UNCHANGED <<predVars, redirectVars, scanVars, treeVars>>

InitDebounce ==
    /\ op = "debounce"
    /\ pc = "idle"
    /\ microtasks = <<>>
    /\ AllPromisesIdle /\ OrderedIdle /\ TimeoutIdle /\ IgnoreIdle /\ DeferIdle /\ IdIdle
    /\ debounceDelay \in 0..MaxDelay
    /\ clock = 0 /\ timers = {} /\ timeoutID = 0 /\ invocations = <<>> /\ fnCalls = <<>>
    /\ PredIdle /\ RedirectIdle /\ ScanIdle /\ TreeIdle

NextDebounce == CallDebounce \/ CallDebounced \/ DebounceTick \/ DebounceFire

SpecDebounce == InitDebounce /\ [][NextDebounce]_vars

----------------------------------------------------------------------------
\* promiseFails and promiseWorks

\* promiseFails(promise), once promise has settled as p:
\* try { await promise; return false; } catch { return true; }
PromiseFailsRethrow(p) == IF p.st = "rejected" THEN p ELSE Fulfilled(Bool(FALSE))
PromiseFails(p) == Fulfilled(Bool(p.st = "rejected"))

\* promiseWorks(promise), once promise has settled as p:
\* try { await promise; return true; } catch { return false; }
PromiseWorks(p) == Fulfilled(Bool(p.st = "fulfilled"))

Called(fn) == \E n \in DOMAIN predCalls : predCalls[n] = fn

\* The synchronous part of promiseFails(promise) and of promiseWorks(promise):
\* the await registers a reaction, queued at once when promise is settled.
CallPredicate(fn) ==
    /\ op = "promisePredicates"
    /\ ~Called(fn)
    /\ predCalls' = Append(predCalls, fn)
    /\ events' = Append(events, "call")
    /\ microtasks' = IF Settled(promise) THEN Append(microtasks, Job(fn, 0))
                     ELSE microtasks
    /\ UNCHANGED <<op, pc, promises, errors, result, tasks, taskState, calls, logged>>
    /\ UNCHANGED <<promise, time, now, timer, timedOut, chain, ignoreVars, deferVars, idVars>>
    /\ UNCHANGED <<debounceVars, fails, works, redirectVars, scanVars, treeVars>>

CallPromiseFails == CallPredicate("promiseFails")
CallPromiseWorks == CallPredicate("promiseWorks")

\* promiseFails resumes after its await and returns.
RunPromiseFails ==
    /\ microtasks # <<>>
    /\ Head(microtasks).kind = "promiseFails"
    /\ fails' = PromiseFails(promise)
    /\ microtasks' = Tail(microtasks)
    /\ UNCHANGED <<op, pc, promises, errors, result, tasks, taskState, calls, logged>>
    /\ UNCHANGED <<timeoutVars, ignoreVars, deferVars, idVars>>
    /\ UNCHANGED <<debounceVars, predCalls, works, redirectVars, scanVars, treeVars>>

\* promiseWorks resumes after its await and returns.
RunPromiseWorks ==
    /\ microtasks # <<>>
    /\ Head(microtasks).kind = "promiseWorks"
    /\ works' = PromiseWorks(promise)
    /\ microtasks' = Tail(microtasks)
    /\ UNCHANGED <<op, pc, promises, errors, result, tasks, taskState, calls, logged>>
    /\ UNCHANGED <<timeoutVars, ignoreVars, deferVars, idVars>>
    /\ UNCHANGED <<debounceVars, predCalls, fails, redirectVars, scanVars, treeVars>>

InitPredicates ==
    /\ op = "promisePredicates"
    /\ pc = "idle"
    /\ microtasks = <<>>
    /\ AllPromisesIdle /\ OrderedIdle /\ TimeoutIdle /\ IgnoreIdle /\ DeferIdle /\ IdIdle
    /\ MoreIdle

NextPredicates ==
    \/ CallPromiseFails
    \/ CallPromiseWorks
    \/ SettlePromise
    \/ RunPromiseFails
    \/ RunPromiseWorks

SpecPredicates == InitPredicates /\ [][NextPredicates]_vars

----------------------------------------------------------------------------
\* checkRedirect

\* response.redirected
Redirected(v) == IF v.type = "response" THEN Bool(v.id = 1) ELSE Undefined

\* error.timeout
TimeoutOf(e) == IF e.type = "timeout" THEN Bool(TRUE) ELSE Undefined

\* checkRedirect after `await this.timeoutPromise(...)` settled as res, with ctrl
\* its controller: the promise it returns and whether it aborts the request.
\*   try { const response = await ...; return response.redirected; }
\*   catch (error) { if (error.timeout && controller) controller.abort(); return false; }
\* Reading a property of undefined throws a TypeError: in the try block it is
\* caught, in the catch block it is the error checkRedirect rejects with.
CheckRedirectAfter(res, ctrl) ==
    LET thrown == IF res.st = "rejected" THEN res.val ELSE TypeError
    IN  IF res.st = "fulfilled" /\ HasProperties(res.val)
        THEN [redirect |-> Fulfilled(Redirected(res.val)), aborted |-> FALSE]
        ELSE IF ~HasProperties(thrown)
        THEN [redirect |-> Rejected(TypeError), aborted |-> FALSE]
        ELSE [redirect |-> Fulfilled(Bool(FALSE)),
              aborted |-> Truthy(TimeoutOf(thrown)) /\ ctrl]

\* The synchronous part of checkRedirect(url): without window.fetch it returns
\* false, otherwise the request is made and handed to timeoutPromise.
CallCheckRedirect ==
    /\ op = "checkRedirect"
    /\ pc = "idle"
    /\ IF ~fetchAvailable
       THEN /\ redirect' = Fulfilled(Bool(FALSE))
            /\ pc' = "done"
            /\ UNCHANGED <<microtasks, timer, timedOut, chain, events>>
       ELSE /\ TimeoutPromiseCall
            /\ redirect' = redirect
    /\ UNCHANGED <<op, promises, errors, result, tasks, taskState, calls, logged>>
    /\ UNCHANGED <<promise, time, now, ignoreVars, deferVars, idVars>>
    /\ UNCHANGED <<debounceVars, predVars, fetchAvailable, controller, aborted, scanVars,
                   treeVars>>

\* checkRedirect resumes after its await and returns.
RunCheckRedirect ==
    /\ microtasks # <<>>
    /\ Head(microtasks).kind = "checkRedirect"
    /\ LET after == CheckRedirectAfter(result, controller)
       IN  /\ redirect' = after.redirect
           /\ aborted' = after.aborted
    /\ microtasks' = Tail(microtasks)
    /\ UNCHANGED <<op, pc, promises, errors, result, tasks, taskState, calls, logged>>
    /\ UNCHANGED <<timeoutVars, ignoreVars, deferVars, idVars>>
    /\ UNCHANGED <<debounceVars, predVars, fetchAvailable, controller, scanVars, treeVars>>

InitRedirect ==
    /\ op = "checkRedirect"
    /\ pc = "idle"
    /\ microtasks = <<>>
    /\ AllPromisesIdle /\ OrderedIdle
    /\ promise = PendingP
    /\ time \in 0..MaxTime
    /\ now = 0 /\ timer = "none" /\ timedOut = FALSE /\ chain = <<>> /\ events = <<>>
    /\ IgnoreIdle /\ DeferIdle /\ IdIdle
    /\ DebounceIdle /\ PredIdle /\ ScanIdle /\ TreeIdle
    /\ fetchAvailable \in BOOLEAN
    /\ controller \in BOOLEAN
    /\ aborted = FALSE
    /\ redirect = PendingP

NextRedirect ==
    \/ CallCheckRedirect
    \/ SettlePromise
    \/ Tick
    \/ TimerFire
    \/ RunThen
    \/ RunCatch
    \/ RunFinally
    \/ RunCheckRedirect

SpecRedirect == InitRedirect /\ [][NextRedirect]_vars

----------------------------------------------------------------------------
\* startScanQR and stopScanQR

\* 'QRScanner isn\'t available in browser.', the text of a QR code, the errors
\* of a stack overflow and of a cancelled scan, 'The user denied camera access.'
NotAvailable == [type |-> "string", id |-> 1]
Text == [type |-> "string", id |-> 2]
RangeError == [type |-> "RangeError", id |-> 0]
CanceledError == [type |-> "CanceledError", id |-> 0]
DeniedError == ErrorOf(2)

\* this.qrScanData, with the promise of its deferred and the state of its
\* subscription.
ScanData == [qrScanData |-> qrScanData, observable |-> observable,
             scanDeferred |-> scanDeferred]

\* stopScanQR(data, error) on the scan state s.
StopScanQRKeepsData(s, data, error) ==
    IF ~s.qrScanData THEN s
    ELSE [qrScanData |-> TRUE,
          observable |-> "unsubscribed",
          scanDeferred |->
              IF error THEN DeferredReject(s.scanDeferred, data)
              ELSE IF data # Undefined THEN DeferredResolve(s.scanDeferred, data)
              ELSE DeferredReject(s.scanDeferred, CanceledError)]
StopScanQR(s, data, error) ==
    IF ~s.qrScanData THEN s
    ELSE [qrScanData |-> FALSE,
          observable |-> "unsubscribed",
          scanDeferred |->
              IF error THEN DeferredReject(s.scanDeferred, data)
              ELSE IF data # Undefined THEN DeferredResolve(s.scanDeferred, data)
              ELSE DeferredReject(s.scanDeferred, CanceledError)]

\* A stopScanQR(data, error) call, added to the history with the scan state
\* before and after it.  The promise startScanQR returned follows the deferred
\* once startScanQR has returned deferred.promise.
StopScanQRCall(data, error) ==
    LET after == StopScanQR(ScanData, data, error)
    IN  /\ qrScanData' = after.qrScanData
        /\ observable' = after.observable
        /\ scanDeferred' = after.scanDeferred
        /\ stops' = Append(stops, [data |-> data, error |-> error,
                                   before |-> ScanData, after |-> after])

\* What stopScanQR is called with: nothing (cancelled), a text, an error.
StopData == {Undefined, Text, ErrorOf(1)}

ScanRest ==
    /\ UNCHANGED <<op, pc, promises, errors, result, microtasks, tasks, taskState, calls,
                   logged>>
    /\ UNCHANGED <<timeoutVars, ignoreVars, deferVars, idVars>>
    /\ UNCHANGED <<debounceVars, predVars, redirectVars, treeVars>>

\* startScanQR() is called.
CallStartScanQR ==
    /\ op = "scanQR"
    /\ scanPc = "idle"
    /\ depth' = 1
    /\ scanPc' = "entering"
    /\ UNCHANGED <<mobile, scanResult, qrScanData, observable, scanDeferred, stops>>
    /\ ScanRest

\* try { return this.startScanQR(); }: the activation calls startScanQR again.
ReenterStartScanQR ==
    /\ scanPc = "entering"
    /\ depth < MaxStack
    /\ depth' = depth + 1
    /\ UNCHANGED <<mobile, scanPc, scanResult, qrScanData, observable, scanDeferred, stops>>
    /\ ScanRest

\* The call stack is full: the call throws a RangeError, which the catch block
\* of the innermost activation swallows.
StackOverflow ==
    /\ scanPc = "entering"
    /\ depth = MaxStack
    /\ scanPc' = "platformCheck"
    /\ UNCHANGED <<mobile, depth, scanResult, qrScanData, observable, scanDeferred, stops>>
    /\ ScanRest

\* if (!CoreApp.instance.isMobile()) return Promise.reject(...), evaluated by the
\* innermost activation on a full stack: the call of isMobile overflows it
\* again, or it returns.  Every outer activation returns the promise of the
\* inner one.
PlatformCheck ==
    /\ scanPc = "platformCheck"
    /\ \/ scanResult' = Rejected(RangeError) /\ scanPc' = "done"
       \/ ~mobile /\ scanResult' = Rejected(NotAvailable) /\ scanPc' = "done"
       \/ mobile /\ scanResult' = scanResult /\ scanPc' = "preparing"
    /\ UNCHANGED <<mobile, depth, qrScanData, observable, scanDeferred, stops>>
    /\ ScanRest

\* QRScanner.instance.prepare() settles: without authorization, or when it
\* rejects, startScanQR rejects; otherwise the scan starts (unless one is
\* running) and the camera is shown.
PrepareSettles ==
    /\ scanPc = "preparing"
    /\ \/ /\ scanResult' = Rejected(DeniedError)
          /\ scanPc' = "done"
          /\ UNCHANGED <<qrScanData, observable, scanDeferred>>
       \/ /\ scanResult' = Rejected(ErrorOf(3))
          /\ scanPc' = "done"
          /\ UNCHANGED <<qrScanData, observable, scanDeferred>>
       \/ /\ IF qrScanData
             THEN /\ scanPc' = "scanning"
                  /\ UNCHANGED <<qrScanData, observable, scanDeferred>>
             ELSE /\ qrScanData' = TRUE
                  /\ scanDeferred' = PendingP
                  /\ observable' = "subscribed"
                  /\ scanPc' = "showing"
          /\ scanResult' = scanResult
    /\ UNCHANGED <<mobile, depth, stops>>
    /\ ScanRest

\* QRScanner.instance.show() settles.  Fulfilled: this.qrScanData.deferred.promise
\* is returned (reading it throws a TypeError when the scan was stopped
\* meanwhile).  Rejected with e, or after that TypeError: stopScanQR(e, true)
\* and startScanQR rejects with e.
ShowSettles ==
    /\ scanPc = "showing"
    /\ \/ /\ qrScanData
          /\ scanPc' = "scanning"
          /\ UNCHANGED <<scanResult, qrScanData, observable, scanDeferred, stops>>
       \/ \E e \in {ErrorOf(1), TypeError} :
            /\ e = TypeError => ~qrScanData
            /\ StopScanQRCall(e, TRUE)
            /\ scanResult' = Rejected(e)
            /\ scanPc' = "done"
    /\ UNCHANGED <<mobile, depth>>
    /\ ScanRest

\* stopScanQR(data, error) is called: by the subscription to the scanner when a
\* text is received (text, false), or by anyone else.
CallStopScanQR ==
    /\ op = "scanQR"
    /\ Len(stops) < MaxStops
    /\ \E data \in StopData, error \in BOOLEAN : StopScanQRCall(data, error)
    /\ scanResult' = IF scanPc = "scanning" THEN scanDeferred' ELSE scanResult
    /\ scanPc' = IF scanPc = "scanning" /\ Settled(scanDeferred') THEN "done" ELSE scanPc
    /\ UNCHANGED <<mobile, depth>>
    /\ ScanRest

InitScan ==
    /\ op = "scanQR"
    /\ pc = "idle"
    /\ microtasks = <<>>
    /\ AllPromisesIdle /\ OrderedIdle /\ TimeoutIdle /\ IgnoreIdle /\ DeferIdle /\ IdIdle
    /\ DebounceIdle /\ PredIdle /\ RedirectIdle /\ TreeIdle
    /\ mobile \in BOOLEAN
    /\ depth = 0 /\ scanPc = "idle" /\ scanResult = PendingP
    /\ qrScanData = FALSE /\ observable = "none" /\ scanDeferred = PendingP /\ stops = <<>>

NextScan ==
    \/ CallStartScanQR
    \/ ReenterStartScanQR
    \/ StackOverflow
    \/ PlatformCheck
    \/ PrepareSettles
    \/ ShowSettles
    \/ CallStopScanQR

SpecScan == InitScan /\ [][NextScan]_vars

----------------------------------------------------------------------------
\* formatTree

\* The values of rootParentId tried: the default and an id no node has.
RootIds == {0, MaxNodes + 1}

\* A node of the list: its id field, its parent field, and (history) the parent
\* it was given, which formatTree may overwrite.
Node(id, parent) == [id |-> id, parent |-> parent, given |-> parent]

\* The depth of the node at position k in the hierarchy given by the list, with
\* r the id of the root.
RECURSIVE NaturalDepth(_, _, _)
NaturalDepth(l, r, k) ==
    IF l[k].given = r THEN 1 ELSE 1 + NaturalDepth(l, r, l[k].given)

\* Lists of n nodes with ids 1..n, sorted by depth, in which the parent of every
\* node is the root or a node of the list.
SortedLists(n, r) ==
    LET Parents == {f \in [1..n -> 0..n] : \A k \in 1..n : f[k] < k}
        ListOf(f) == [k \in 1..n |-> Node(k, IF f[k] = 0 THEN r ELSE f[k])]
        Sorted(l) == \A k \in 1..n : k > 1 => NaturalDepth(l, r, k - 1) <= NaturalDepth(l, r, k)
    IN  {ListOf(f) : f \in {g \in Parents : Sorted(ListOf(g))}}

\* map[id] and mapDepth[id]: 0 stands for undefined.  A depth that is undefined
\* or NaN is equal to no maxDepth and stays NaN when increased, so that 0
\* stands for both.
Lookup(m, id) == IF id \in DOMAIN m THEN m[id] ELSE 0
DepthPlusOne(d) == IF d = 0 THEN 0 ELSE d + 1

\* What logger.error receives about node k.
NodeError(k) == [type |-> "node", id |-> k]

\* formatTree(list, 'parent', 'id', rootParentId, maxDepth) is called.
CallFormatTree ==
    /\ op = "formatTree"
    /\ pc = "idle"
    /\ pc' = IF Len(list) = 0 THEN "done" ELSE "loop"
    /\ map' = [id \in 1..Len(list) |-> 0]
    /\ mapDepth' = [id \in 1..Len(list) |-> 0]
    /\ children' = [k \in 1..Len(list) |-> <<>>]
    /\ tree' = <<>>
    /\ index' = 0
    /\ UNCHANGED <<op, promises, errors, result, microtasks, tasks, taskState, calls,
                   logged>>
    /\ UNCHANGED <<timeoutVars, ignoreVars, deferVars, idVars>>
    /\ UNCHANGED <<debounceVars, predVars, redirectVars, scanVars>>
    /\ UNCHANGED <<list, maxDepth, rootParentId>>

\* The node at position k, whose parent (at position parentIndex) is at
\* maxDepth: it becomes a child of the parent of its parent, at the depth of its
\* parent, and its parent field is overwritten.
PlaceAtLastLevel(k, parentIndex, badNode) ==
    LET parentOfParent == list[parentIndex].parent
        holder == Lookup(map', parentOfParent)
    IN  IF parentOfParent # 0
        THEN IF holder = 0
             THEN \* list[undefined].children: a TypeError ends forEach and the call
                  /\ pc' = "threw"
                  /\ logged' = logged \o badNode
                  /\ UNCHANGED <<children, mapDepth, list>>
             ELSE /\ children' = [children EXCEPT ![holder] = Append(@, k)]
                  /\ mapDepth' = [mapDepth EXCEPT ![list[k].id] = mapDepth[list[k].parent]]
                  /\ list' = [list EXCEPT ![k].parent = parentOfParent]
                  /\ logged' = logged \o badNode
                  /\ pc' = IF k = Len(list) THEN "done" ELSE "loop"
        ELSE /\ logged' = logged \o badNode \o <<NodeError(k)>>
             /\ UNCHANGED <<children, mapDepth, list>>
             /\ pc' = IF k = Len(list) THEN "done" ELSE "loop"

\* One call of the callback of list.forEach, for the node at position index + 1.
RunForEach ==
    /\ op = "formatTree"
    /\ pc = "loop"
    /\ LET k == index + 1
           id == list[k].id
           parent == list[k].parent
           badNode == IF id = 0 \/ parent = 0 THEN <<NodeError(k)>> ELSE <<>>
           parentIndex == Lookup(map', parent)
       IN  /\ index' = k
           /\ map' = [map EXCEPT ![id] = k]
           /\ IF parent # rootParentId
              THEN /\ tree' = tree
                   /\ IF parentIndex # 0
                      THEN IF mapDepth[parent] = maxDepth
                           THEN PlaceAtLastLevel(k, parentIndex, badNode)
                           ELSE /\ children' = [children EXCEPT ![parentIndex] = Append(@, k)]
                                /\ mapDepth' = [mapDepth EXCEPT
                                                   ![id] = DepthPlusOne(mapDepth[parent])]
                                /\ logged' = logged \o badNode
                                /\ list' = list
                                /\ pc' = IF k = Len(list) THEN "done" ELSE "loop"
                      ELSE /\ logged' = logged \o badNode \o <<NodeError(k)>>
                           /\ UNCHANGED <<children, mapDepth, list>>
                           /\ pc' = IF k = Len(list) THEN "done" ELSE "loop"
              ELSE /\ tree' = Append(tree, k)
                   /\ mapDepth' = [mapDepth EXCEPT ![id] = 1]
                   /\ logged' = logged \o badNode
                   /\ UNCHANGED <<children, list>>
                   /\ pc' = IF k = Len(list) THEN "done" ELSE "loop"
    /\ UNCHANGED <<op, promises, errors, result, microtasks, tasks, taskState, calls>>
    /\ UNCHANGED <<timeoutVars, ignoreVars, deferVars, idVars>>
    /\ UNCHANGED <<debounceVars, predVars, redirectVars, scanVars>>
    /\ UNCHANGED <<maxDepth, rootParentId>>

InitTree ==
    /\ op = "formatTree"
    /\ pc = "idle"
    /\ microtasks = <<>>
    /\ AllPromisesIdle /\ OrderedIdle /\ TimeoutIdle /\ IgnoreIdle /\ DeferIdle /\ IdIdle
    /\ DebounceIdle /\ PredIdle /\ RedirectIdle /\ ScanIdle
    /\ rootParentId \in RootIds
    /\ maxDepth \in 1..MaxTreeDepth
    /\ list \in UNION {SortedLists(n, rootParentId) : n \in 0..MaxNodes}
    /\ index = 0 /\ map = <<>> /\ mapDepth = <<>> /\ children = <<>> /\ tree = <<>>

NextTree == CallFormatTree \/ RunForEach

SpecTree == InitTree /\ [][NextTree]_vars

Init ==
    \/ InitAllPromises \/ InitOrdered \/ InitTimeout \/ InitIgnore \/ InitDefer
    \/ InitUniqueId \/ InitDebounce \/ InitPredicates \/ InitRedirect
    \/ InitScan \/ InitTree
Next ==
    \/ NextAllPromises \/ NextOrdered \/ NextTimeout \/ NextIgnore \/ NextDefer
    \/ NextUniqueId \/ NextDebounce \/ NextPredicates \/ NextRedirect
    \/ NextScan \/ NextTree
Spec == Init /\ [][Next]_vars

----------------------------------------------------------------------------
\* Vocabulary of the properties.

\* data.function() of task i has been invoked.
Started(i) == taskState[i].st # "notstarted"

\* Task i was invoked and is over: the promise it returned has settled, or it threw.
TaskSettled(i) == taskState[i].st \in {"fulfilled", "rejected", "threw"}

Queued(k, i) == \E n \in DOMAIN microtasks : microtasks[n] = Job(k, i)

RejectedInputs == {i \in DOMAIN promises : promises[i].st = "rejected"}
RejectedTasks == {i \in DOMAIN tasks : taskState[i].st = "rejected"}

\* The last blocking task before task j, 0 when there is none.
LastBlockingBefore(j) == Max({0} \cup {i \in 1..(j - 1) : tasks[i].blocking})

\* tasks = [A(blocking=true), B(blocking=false), C(blocking=true)]
IsABC ==
    /\ Len(tasks) = 3
    /\ tasks[1].blocking /\ ~tasks[2].blocking /\ tasks[3].blocking

----------------------------------------------------------------------------
\* Properties of allPromises (SpecAllPromises).

\* C1: the promise allPromises returns is settled only when every input
\* promise is settled: it never settles while an input is still pending, also
\* after an input has rejected.
C1_AllPromisesWaitsForAll ==
    Settled(result) => \A i \in DOMAIN promises : Settled(promises[i])

\* C1 witness: an input has rejected and its getPromiseError has returned,
\* another input is still pending, and the returned promise is pending.
C1_Witness ==
    /\ op = "allPromises" /\ pc = "awaiting" /\ result.st = "pending"
    /\ \E i, j \in DOMAIN promises :
        /\ promises[i].st = "rejected" /\ errors[i] # NotYet
        /\ promises[j].st = "pending"

\* C2: once allPromises is done on a sequence in which at least one promise
\* rejected, whatever the reason, the returned promise is rejected.
C2_RejectsWhenAnyRejects ==
    (op = "allPromises" /\ pc = "done" /\ RejectedInputs # {})
        => result.st = "rejected"

\* C3: when several inputs rejected and allPromises rejects, its reason is the
\* reason of the rejected input with the lowest index.
C3_RejectsWithLowestIndexReason ==
    (op = "allPromises" /\ Cardinality(RejectedInputs) >= 2 /\ result.st = "rejected")
        => result.val = promises[Min(RejectedInputs)].val

\* C23: allPromises called without promises (no sequence, or an empty one) has
\* resolved when the call returns, without error, and nothing is left to wait
\* for: no reaction is queued.
C23_EmptyResolvesImmediately ==
    (op = "allPromises" /\ pc # "idle" /\ Len(promises) = 0)
        => (pc = "done" /\ result = Fulfilled(Undefined) /\ microtasks = <<>>)

\* C23 witness: allPromises was called without promises and has resolved.
C23_Witness ==
    /\ op = "allPromises" /\ promises = <<>> /\ errors = <<>>
    /\ pc = "done" /\ result.st = "fulfilled"

----------------------------------------------------------------------------
\* Properties of executeOrderedPromises (SpecOrdered).

\* C4 as stated: with [A(blocking), B(non-blocking), C(blocking)], B starts as
\* soon as A has started, without waiting for A to settle (once A is running, B is
\* running or its start is queued), and C does not start before A has settled.
C4_BStartsWithA ==
    IsABC =>
        /\ taskState[1].st = "pending" => (Started(2) \/ Queued("start", 2))
        /\ Started(3) => TaskSettled(1)

\* C4 amended: with [A(blocking), B(non-blocking), C(blocking)], neither B nor C
\* starts before A has settled, and C is started together with B: once B has
\* started, C has started or its start is queued, whether B has settled or not.
C4_BAndCWaitForA ==
    IsABC =>
        /\ Started(2) => TaskSettled(1)
        /\ Started(3) => TaskSettled(1)
        /\ Started(2) => (Started(3) \/ Queued("start", 3))

\* C4 witness: A has settled and C has started while B is still pending.
C4_Witness ==
    /\ IsABC
    /\ taskState[1].st \in {"fulfilled", "rejected"}
    /\ taskState[2].st = "pending"
    /\ Started(3)

\* C5: no task after a blocking task i is invoked before task i is over (the
\* promise it returned has fulfilled or rejected).
C5_BlockingTaskIsBarrier ==
    \A i, j \in DOMAIN tasks :
        (tasks[i].blocking /\ i < j /\ Started(j)) => TaskSettled(i)

\* C5 witness: a blocking task fulfilled, a later blocking task rejected, and a
\* task after both has been invoked.
C5_Witness ==
    \E i, j, k \in DOMAIN tasks :
        /\ i < j /\ j < k
        /\ tasks[i].blocking /\ taskState[i].st = "fulfilled"
        /\ tasks[j].blocking /\ taskState[j].st = "rejected"
        /\ Started(k)

\* C6: a task whose predecessor is non-blocking is started together with that
\* predecessor (once the predecessor has started, the task has started or its
\* start is queued), and a task waits only for the last blocking task before it:
\* once that one's promise has settled, the task has started or its start is queued.
C6_NonBlockingPredecessorNotAwaited ==
    /\ \A j \in DOMAIN tasks :
        (j > 1 /\ ~tasks[j - 1].blocking /\ Started(j - 1))
            => (Started(j) \/ Queued("start", j))
    /\ \A j \in DOMAIN tasks :
        (pc # "idle" /\ Settled(PromiseState(promises, LastBlockingBefore(j))))
            => (Started(j) \/ Queued("start", j))

\* C6 witness: a task has started and settled while its non-blocking
\* predecessor is still pending.
C6_Witness ==
    \E j \in DOMAIN tasks :
        /\ j > 1 /\ ~tasks[j - 1].blocking
        /\ taskState[j - 1].st = "pending"
        /\ taskState[j].st \in {"fulfilled", "rejected"}

\* C7: the promise executeOrderedPromises returns is settled only when every
\* task has been started and no started task's promise is still pending.
C7_OverallWaitsForEveryTask ==
    Settled(result) => \A i \in DOMAIN tasks : Started(i) /\ TaskSettled(i)

\* C7 witness: the overall promise has settled after a sequence of several
\* tasks, one of them blocking, one of them rejected.
C7_Witness ==
    /\ op = "executeOrderedPromises" /\ Settled(result)
    /\ Len(tasks) >= 2
    /\ \E i \in DOMAIN tasks : tasks[i].blocking
    /\ RejectedTasks # {}

\* C8: no task function is invoked twice; once a blocking task has rejected,
\* every task waiting for it has been invoked, or its start is queued, or the
\* settling of the blocking task's tracked promise is queued; and when nothing is
\* pending or queued any more, every task function has been invoked exactly once.
C8_RejectionNeverCancels ==
    /\ \A j \in DOMAIN tasks : calls[j] <= 1
    /\ \A j \in DOMAIN tasks :
        LET d == LastBlockingBefore(j)
        IN  (d > 0 /\ taskState[d].st = "rejected")
                => (calls[j] = 1 \/ Queued("start", j) \/ Queued("settle", d))
    /\ (pc # "idle" /\ microtasks = <<>>
            /\ \A i \in DOMAIN tasks : taskState[i].st # "pending")
        => \A j \in DOMAIN tasks : calls[j] = 1

\* C8 witness: a blocking task has rejected and a task waiting for it has been invoked.
C8_Witness ==
    \E j \in DOMAIN tasks :
        /\ LastBlockingBefore(j) > 0
        /\ taskState[LastBlockingBefore(j)].st = "rejected"
        /\ calls[j] = 1

\* C9: once executeOrderedPromises is done: what every task function threw
\* synchronously was logged, every task was still invoked once, and the throw was
\* absorbed: the overall promise is rejected only with the reason of a task whose
\* promise rejected, and it resolved when no task's promise rejected.
C9_SyncThrowAbsorbed ==
    (op = "executeOrderedPromises" /\ pc = "done") =>
        /\ \A i \in DOMAIN tasks :
            taskState[i].st = "threw"
                => \E n \in DOMAIN logged : logged[n] = taskState[i].val
        /\ \A j \in DOMAIN tasks : calls[j] = 1
        /\ result.st = "rejected"
            => \E i \in RejectedTasks : result.val = taskState[i].val
        /\ RejectedTasks = {} => result.st = "fulfilled"

\* C10: when the promise of at least one task rejected (and no task threw), the
\* overall promise is rejected with the reason of the lowest-index task whose
\* own promise rejected.
C10_RejectsWithLowestIndexTaskReason ==
    (/\ op = "executeOrderedPromises" /\ pc = "done"
     /\ \A i \in DOMAIN tasks : tasks[i].kind = "async"
     /\ RejectedTasks # {})
        => result = Rejected(taskState[Min(RejectedTasks)].val)

\* C28: the task functions are invoked in the order of the input sequence:
\* whenever the function of a task has been invoked, the function of every
\* task before it has been invoked already.
C28_InvokedInInputOrder ==
    \A i, j \in DOMAIN tasks : (i < j /\ Started(j)) => Started(i)

\* C28 witness: the first task is non-blocking and still pending, the second
\* one throws, and the third has been invoked.
C28_Witness ==
    /\ Len(tasks) = 3
    /\ ~tasks[1].blocking /\ taskState[1].st = "pending"
    /\ taskState[2].st = "threw"
    /\ Started(3)

\* Every task has been invoked and the overall promise has settled.
AllStartedAndSettled ==
    /\ op = "executeOrderedPromises"
    /\ \A i \in DOMAIN tasks : Started(i)
    /\ Settled(result)

NoTaskPending == \A i \in DOMAIN tasks : taskState[i].st # "pending"

\* C29 (SpecOrderedLive): if the promise of every task eventually settles (from
\* some point on no task's promise is pending), then eventually every task has
\* been invoked and the overall promise has settled; and while the promise of a
\* blocking task is pending, no later task has been invoked and the overall
\* promise is pending.
C29_SettlesWhenTasksSettle ==
    /\ (<>[]NoTaskPending) => <>AllStartedAndSettled
    /\ [](\A i, j \in DOMAIN tasks :
            (tasks[i].blocking /\ taskState[i].st = "pending" /\ i < j)
                => (~Started(j) /\ ~Settled(result)))

\* C29 witness: after a blocking task that rejected, every task has been
\* invoked and the overall promise has settled.
C29_Witness ==
    /\ AllStartedAndSettled
    /\ Len(tasks) >= 2
    /\ tasks[1].blocking /\ taskState[1].st = "rejected"

----------------------------------------------------------------------------
\* Properties of timeoutPromise (SpecTimeout).

\* The position of the first event e in the history, 0 when it has not happened.
Pos(e) ==
    IF \E n \in DOMAIN events : events[n] = e
    THEN Min({n \in DOMAIN events : events[n] = e})
    ELSE 0

\* The promise settled, and the timer had not fired by then.
SettledBeforeFire == Pos("settle") > 0 /\ (Pos("fire") = 0 \/ Pos("settle") < Pos("fire"))

\* The timer fired, and the promise had not settled by then.
FiredBeforeSettle == Pos("fire") > 0 /\ (Pos("settle") = 0 \/ Pos("fire") < Pos("settle"))

\* C11: when the task fulfilled before the timer fired, the promise timeoutPromise
\* returned is, once the reactions have run, fulfilled with the task's value.
C11_ResolvesWithTaskValue ==
    (op = "timeoutPromise" /\ pc = "done" /\ promise.st = "fulfilled" /\ SettledBeforeFire)
        => result = Fulfilled(promise.val)

\* C12: the promise timeoutPromise returned never changes once settled, and when
\* the timer fired before the task settled it is rejected with {timeout: true},
\* whatever the task does later.
C12_SettlesOnce ==
    /\ [](FiredBeforeSettle => result = Rejected(Timeout))
    /\ [][Settled(result) => result' = result]_vars

\* C12 witness: the timer fired first, the task fulfilled afterwards, its
\* reactions have run and the outcome is still the timeout rejection.
C12_Witness ==
    /\ op = "timeoutPromise" /\ pc = "done"
    /\ FiredBeforeSettle /\ promise.st = "fulfilled"
    /\ result = Rejected(Timeout)

\* C13: the timer never fires after the task has settled, and once the task has
\* settled and its reactions have run, no timer is pending: it was cleared, or it
\* had fired before.
C13_TimerCleared ==
    /\ ~(Pos("settle") > 0 /\ Pos("fire") > Pos("settle"))
    /\ (op = "timeoutPromise" /\ pc # "idle" /\ Settled(promise) /\ microtasks = <<>>)
        => timer \in {"cleared", "fired"}

\* C13 witness: the task settled after the call and before the deadline, the
\* timer was cleared, and the deadline has passed since.
C13_Witness ==
    /\ op = "timeoutPromise"
    /\ events = <<"call", "settle">>
    /\ timer = "cleared"
    /\ time > 0 /\ now >= time

\* C14: when the task rejected before the timer fired, the promise timeoutPromise
\* returned is, once the reactions have run, rejected with the task's own reason.
C14_TaskRejectionPropagates ==
    (op = "timeoutPromise" /\ pc = "done" /\ promise.st = "rejected" /\ SettledBeforeFire)
        => result = Rejected(promise.val)

\* C14 witness: the task rejected with an error after the call, no timer fired,
\* and the returned promise is rejected with that error.
C14_Witness ==
    /\ op = "timeoutPromise" /\ pc = "done"
    /\ events = <<"call", "settle">>
    /\ promise = Rejected(ErrorOf(1))
    /\ result = Rejected(ErrorOf(1))

C30_EventuallySettles ==
    /\ <>Settled(result)
    /\ ([](promise.st = "pending")) => <>(result = Rejected(Timeout) /\ now >= time)
    /\ [](FiredBeforeSettle => now >= time)
    /\ [][timedOut' # timedOut => promise' = promise]_vars

\* C30 witness: the deadline has elapsed, the returned promise is rejected with
\* {timeout: true} and the task is still pending.
C30_Witness ==
    /\ op = "timeoutPromise" /\ time > 0 /\ now >= time
    /\ timer = "fired" /\ timedOut
    /\ promise.st = "pending"
    /\ result = Rejected(Timeout)

----------------------------------------------------------------------------
\* Properties of ignoreErrors and allPromisesIgnoringErrors (SpecIgnore).

C17_IgnoreErrorsFallsBack ==
    op = "ignoreErrors" =>
        /\ ignored.st # "rejected"
        /\ Settled(ignored) =>
            /\ Settled(promise)
            /\ promise.st = "fulfilled" => ignored = Fulfilled(promise.val)
            /\ promise.st = "rejected" => ignored = Fulfilled(fallback)

\* C17 witness: the promise rejected with an error, a fallback was given, and
\* ignoreErrors resolved with the fallback.
C17_Witness ==
    /\ op = "ignoreErrors"
    /\ promise = Rejected(ErrorOf(1))
    /\ fallback = ValueOf(2)
    /\ ignored = Fulfilled(ValueOf(2))

----------------------------------------------------------------------------
\* Properties of promiseDefer (SpecDefer).

\* The outcome a call asks for.
Asked(c) == IF c.fn = "resolve" THEN Fulfilled(c.arg) ELSE Rejected(c.arg)

\* C18: after any sequence of calls to resolve and reject, the promise of the
\* deferred is settled with the outcome of the first call, and it is pending
\* while no call was made.
C18_FirstCallWins ==
    op = "promiseDefer" =>
        IF deferCalls = <<>> THEN deferred = PendingP
        ELSE deferred = Asked(deferCalls[1])

\* C18 witness: resolve(1), then resolve(2), then reject: the promise is fulfilled with 1.
C18_Witness ==
    /\ Len(deferCalls) = 3
    /\ deferCalls[1] = [fn |-> "resolve", arg |-> ValueOf(1)]
    /\ deferCalls[2] = [fn |-> "resolve", arg |-> ValueOf(2)]
    /\ deferCalls[3].fn = "reject"
    /\ deferred = Fulfilled(ValueOf(1))

----------------------------------------------------------------------------
\* Properties of getUniqueId (SpecUniqueId).

\* C19: for every name, the calls of getUniqueId return 1, 2, 3, ... in order.
C19_IdsCountFromOne ==
    \A name \in Names :
        issued[name] = [i \in 1..Len(issued[name]) |-> Num(i)]

\* C20: a call getUniqueId(name) changes the counter, and the sequence of ids
\* returned, of no other name.
C20_CountersIndependent ==
    [][\A name \in Names :
          issued'[name] # issued[name]
              => \A other \in Names \ {name} :
                    /\ uniqueIds'[other] = uniqueIds[other]
                    /\ issued'[other] = issued[other]]_vars

\* C20 witness: getUniqueId('k') returned 1, 2, 3 and getUniqueId('other') returned 1.
C20_Witness ==
    /\ issued["k"] = <<Num(1), Num(2), Num(3)>>
    /\ issued["other"] = <<Num(1)>>

----------------------------------------------------------------------------
\* Properties of debounce (SpecDebounce).

\* The calls of fn made when exactly n invocations of the wrapper had been made.
CallsAfter(n) == {m \in DOMAIN fnCalls : fnCalls[m].after = n}

\* Invocation n + 1 was made less than `delay` after invocation n.
FollowedInBurst(n) ==
    /\ n + 1 \in DOMAIN invocations
    /\ invocations[n + 1].at - invocations[n].at < debounceDelay

\* C21: every invocation of the debounced function cancels the call pending from
\* an earlier one (at most one call is pending, that of the latest invocation);
\* fn is only called with the arguments of the latest invocation, no earlier than
\* `delay` after it and at most once for it; an invocation followed by another
\* one less than `delay` later is never forwarded; and once no call is pending,
\* fn has been called exactly once for the last invocation.
C21_DebounceForwardsLastOfBurst ==
    /\ \A t \in timers : t.id = Len(invocations)
    /\ Cardinality(timers) <= 1
    /\ \A m \in DOMAIN fnCalls :
        /\ fnCalls[m].after \in DOMAIN invocations
        /\ fnCalls[m].args = invocations[fnCalls[m].after].args
        /\ fnCalls[m].at >= invocations[fnCalls[m].after].at + debounceDelay
    /\ \A n \in DOMAIN invocations :
        /\ Cardinality(CallsAfter(n)) <= 1
        /\ FollowedInBurst(n) => CallsAfter(n) = {}
    /\ (invocations # <<>> /\ timers = {}) => Cardinality(CallsAfter(Len(invocations))) = 1

\* C21 witness: a burst of three invocations, the last with other arguments
\* than the one before, after which fn was called once, with the last arguments.
C21_Witness ==
    /\ op = "debounce"
    /\ Len(invocations) = 3
    /\ FollowedInBurst(1) /\ FollowedInBurst(2)
    /\ invocations[2].args # invocations[3].args
    /\ Len(fnCalls) = 1
    /\ fnCalls[1].args = invocations[3].args

----------------------------------------------------------------------------
\* Properties of promiseFails and promiseWorks (SpecPredicates).

\* C22: the promises promiseFails(p) and promiseWorks(p) return never reject;
\* they settle only once p has settled, promiseFails with true exactly when p
\* rejected and promiseWorks with true exactly when p fulfilled, so that the two
\* results are each other's negation.
C22_PredicatesNeverReject ==
    /\ fails.st # "rejected" /\ works.st # "rejected"
    /\ Settled(fails) => (Settled(promise) /\ fails = Fulfilled(Bool(promise.st = "rejected")))
    /\ Settled(works) => (Settled(promise) /\ works = Fulfilled(Bool(promise.st = "fulfilled")))
    /\ (Settled(fails) /\ Settled(works)) => (Truthy(fails.val) <=> ~Truthy(works.val))

\* C22 witness: p rejected without reason, promiseFails resolved to true and
\* promiseWorks to false.
C22_Witness ==
    /\ op = "promisePredicates"
    /\ promise = Rejected(Undefined)
    /\ fails = Fulfilled(Bool(TRUE))
    /\ works = Fulfilled(Bool(FALSE))

----------------------------------------------------------------------------
\* Properties of checkRedirect (SpecRedirect).

\* C24: once checkRedirect has settled: when the fetch fulfilled before the
\* timer fired, it resolved to the redirected flag of the response; and it
\* resolved to false only when the response was not redirected, fetch is
\* unavailable, the fetch failed or the timer fired first.
C24_ResolvesToRedirectedFlag ==
    (op = "checkRedirect" /\ Settled(redirect)) =>
        /\ (promise.st = "fulfilled" /\ SettledBeforeFire)
            => redirect = Fulfilled(Redirected(promise.val))
        /\ redirect = Fulfilled(Bool(FALSE))
            => \/ promise = Fulfilled(Response(FALSE))
               \/ ~fetchAvailable
               \/ promise.st = "rejected"
               \/ FiredBeforeSettle

----------------------------------------------------------------------------
\* Properties of startScanQR and stopScanQR (SpecScan).

\* startScanQR has left its synchronous part.
PastPlatformCheck == scanPc \notin {"idle", "entering", "platformCheck"}

\* C25: a call of startScanQR never re-enters itself (one activation only), and
\* once it is past the platform check: not on a mobile device the returned
\* promise is rejected with "QRScanner isn't available in browser.", on a mobile
\* device the call has gone on to QRScanner.prepare.
C25_ReachesPlatformCheck ==
    op = "scanQR" =>
        /\ depth <= 1
        /\ (PastPlatformCheck /\ ~mobile) => scanResult = Rejected(NotAvailable)
        /\ (PastPlatformCheck /\ mobile) => scanResult # Rejected(RangeError)

\* What stopScanQR(data, error) settles the deferred of a running scan as.
StopOutcome(data, error) ==
    IF error THEN Rejected(data)
    ELSE IF data # Undefined THEN Fulfilled(data)
    ELSE Rejected(CanceledError)

\* C26: a stopScanQR call made when no scan is in progress changes nothing; one
\* made during a scan unsubscribes the scanner, clears qrScanData and settles
\* the deferred, pending until then: rejected with data when error is true,
\* otherwise resolved with data when data is defined, otherwise rejected with a
\* cancelled error; the deferred of a scan in progress is always pending, and
\* the stopScanQR call after one that stopped a scan changes nothing.
C26_StopScanQRSettlesOnce ==
    /\ qrScanData => (scanDeferred.st = "pending" /\ observable = "subscribed")
    /\ \A n \in DOMAIN stops :
        LET s == stops[n]
        IN  /\ ~s.before.qrScanData => s.after = s.before
            /\ s.before.qrScanData =>
                /\ s.before.scanDeferred.st = "pending"
                /\ s.after.scanDeferred = StopOutcome(s.data, s.error)
                /\ s.after.observable = "unsubscribed"
                /\ ~s.after.qrScanData
                /\ (n + 1) \in DOMAIN stops => stops[n + 1].after = s.after

\* C26 witness: a stopScanQR call before the scan changed nothing, the scan was
\* then stopped by a text, and a later call with an error changed nothing.
C26_Witness ==
    /\ Len(stops) = 3
    /\ ~stops[1].before.qrScanData
    /\ stops[2].before.qrScanData /\ stops[2].data = Text /\ ~stops[2].error
    /\ stops[2].after.scanDeferred = Fulfilled(Text)
    /\ stops[3].error /\ stops[3].after = stops[2].after
    /\ scanDeferred = Fulfilled(Text) /\ ~qrScanData

----------------------------------------------------------------------------
\* Properties of formatTree (SpecTree).

\* How many times the node at position k occurs in the returned structure.
Occurrences(k) ==
    Cardinality({n \in DOMAIN tree : tree[n] = k})
        + Cardinality({h \in (DOMAIN children) \X (1..(MaxNodes + 1)) :
                          h[2] \in DOMAIN children[h[1]] /\ children[h[1]][h[2]] = k})

\* The depth of the node at position k in the returned tree, 0 when it cannot
\* be reached from `tree`.
RECURSIVE TreeDepth(_)
TreeDepth(k) ==
    IF \E n \in DOMAIN tree : tree[n] = k THEN 1
    ELSE LET holders == {h \in DOMAIN children :
                            \E n \in DOMAIN children[h] : children[h][n] = k}
         IN  IF holders = {} THEN 0
             ELSE IF TreeDepth(Min(holders)) = 0 THEN 0
             ELSE TreeDepth(Min(holders)) + 1

\* C27: once formatTree is over it has returned (not thrown), every node of the
\* list occurs exactly once in the returned tree, none deeper than maxDepth: a
\* node is at its natural depth, or at depth maxDepth when its natural depth
\* exceeds maxDepth.
C27_EveryNodePlacedOnce ==
    (op = "formatTree" /\ pc \in {"done", "threw"}) =>
        /\ pc = "done"
        /\ \A k \in DOMAIN list :
            /\ Occurrences(k) = 1
            /\ TreeDepth(k) = Min({NaturalDepth(list, rootParentId, k), maxDepth})

====
